---- MODULE Spec2Model ----
(***************************************************************************)
(* A model of eval-bot (src/main.py): the /run handler handle_eval, the    *)
(* evaluator execute_code, the traceback sanitizer                         *)
(* format_exception_with_traceback / create_traceback_message, and the     *)
(* response formatter handle_response, over a chat transport.              *)
(*                                                                         *)
(* Text.  A Python str is modelled as a sequence of pieces [s, n]: the     *)
(* string s repeated n times.  In every text that is split, stripped or    *)
(* escaped (message text, printed text, values, tracebacks) whitespace     *)
(* and the markup-significant characters & < > " ' are pieces of their     *)
(* own, so those operations act on them character by character; the        *)
(* other pieces are literals.  The markup that handle_response adds        *)
(* around the blocks is never split, stripped or escaped and is kept as    *)
(* whole literals.  Lengths are exact: a run of 4096 characters is one     *)
(* piece, so the transport limit keeps its real value.                     *)
(*                                                                         *)
(* Scheduling.  A handler runs without interruption between two awaits;    *)
(* each action below is one such stretch.  SpecConc lets the handlers of   *)
(* several requests interleave at every await, which covers a deployment   *)
(* that handles updates concurrently as well as one that handles them one  *)
(* after the other.                                                        *)
(***************************************************************************)
EXTENDS Integers, Sequences, FiniteSets, TLC

(***************************************************************************)
(* Bounds of the model.                                                    *)
(***************************************************************************)
\* Script steps (print calls and awaits) one script performs before it ends.
MaxSteps == 2
\* Frames of a traceback handed to the sanitizer in SpecTb.
MaxFrames == 3

(***************************************************************************)
(* Program constants.                                                      *)
(***************************************************************************)
\* main.py:113  len(str(output)) > 4096
MAX_MESSAGE_LENGTH == 4096

Tasks == {1, 2}

(***************************************************************************)
(* Text operations.                                                        *)
(***************************************************************************)
Lit(lit) == IF lit = "" THEN <<>> ELSE <<[s |-> lit, n |-> 1]>>

Rep(c, k) == IF k = 0 THEN <<>> ELSE <<[s |-> c, n |-> k]>>

\* len(text)
RECURSIVE TLen(_)
TLen(t) == IF t = <<>> THEN 0 ELSE Len(t[1].s) * t[1].n + TLen(Tail(t))

\* a + b; adjacent runs of the same string are kept merged
Cat(a, b) ==
    IF a # <<>> /\ b # <<>> /\ a[Len(a)].s = b[1].s
    THEN SubSeq(a, 1, Len(a) - 1)
         \o <<[s |-> b[1].s, n |-> a[Len(a)].n + b[1].n]>>
         \o Tail(b)
    ELSE a \o b

RECURSIVE CatAll(_)
CatAll(ts) == IF ts = <<>> THEN <<>> ELSE Cat(ts[1], CatAll(Tail(ts)))

\* str.isspace() of the characters used here
Whitespace == {" ", "\n", "\t"}

\* str.rstrip(): drops every trailing whitespace character
RECURSIVE RStrip(_)
RStrip(t) ==
    IF t = <<>> THEN <<>>
    ELSE IF t[Len(t)].s \in Whitespace THEN RStrip(SubSeq(t, 1, Len(t) - 1))
    ELSE t

RECURSIVE SkipSpace(_)
SkipSpace(t) ==
    IF t # <<>> /\ t[1].s \in Whitespace THEN SkipSpace(Tail(t)) ELSE t

RECURSIVE SkipWord(_)
SkipWord(t) ==
    IF t # <<>> /\ t[1].s \notin Whitespace THEN SkipWord(Tail(t)) ELSE t

TakeWord(t) == SubSeq(t, 1, Len(t) - Len(SkipWord(t)))

\* str.split(): the whitespace-separated words
RECURSIVE Split(_)
Split(t) ==
    LET a == SkipSpace(t)
    IN  IF a = <<>> THEN <<>> ELSE <<TakeWord(a)>> \o Split(SkipWord(a))

\* str.split(None, 1): the first word, then the rest with its leading
\* whitespace removed and everything else kept
SplitOnce(t) ==
    LET a    == SkipSpace(t)
        rest == SkipSpace(SkipWord(a))
    IN  IF a = <<>> THEN <<>>
        ELSE IF rest = <<>> THEN <<TakeWord(a)>>
        ELSE <<TakeWord(a), rest>>

\* html.escape(s, quote=True)
HtmlEntity ==
    ("&" :> "&amp;") @@ ("<" :> "&lt;") @@ (">" :> "&gt;")
    @@ ("\"" :> "&quot;") @@ ("'" :> "&#x27;")

HtmlEscape(t) ==
    [i \in 1..Len(t) |->
        IF t[i].s \in DOMAIN HtmlEntity
        THEN [s |-> HtmlEntity[t[i].s], n |-> t[i].n]
        ELSE t[i]]

(***************************************************************************)
(* Filenames and traceback frames.  A filename is a sequence of path       *)
(* components (abs: it starts with "/"); the source name of dynamically    *)
(* compiled code, "<string>", is the one filename that is no path.         *)
(***************************************************************************)
StringFile == [abs |-> FALSE, parts |-> <<"<string>">>]

Path(parts) == [abs |-> TRUE, parts |-> parts]

\* os.getcwd() of the deployment
BaseDirectory == <<"app">>

\* Last components that str.endswith("ast.py") accepts, among those used.
EndsWithAstPy == {"ast.py", "contrast.py"}

Frame(filename, lineno, name, line) ==
    [filename |-> filename, lineno |-> lineno, name |-> name, line |-> line]

\* An exception: its class name, whether the class derives from Exception,
\* str(exception), and the frames of its __traceback__, oldest first.
Exc(cls, is_exception, msg, tb) ==
    [cls |-> cls, is_exception |-> is_exception, msg |-> msg, tb |-> tb]

\* main.py:103, the call into meval
FrameExecuteCode ==
    Frame(Path(<<"app", "main.py">>), "103", "execute_code",
          CatAll(<<Lit("return"), Rep(" ", 1), Rep("\"", 2), Lit(","),
                   Rep(" ", 1), Lit("await"), Rep(" ", 1),
                   Lit("meval.meval(command_args,"), Rep(" ", 1),
                   Lit("globals(),"), Rep(" ", 1),
                   Lit("**execution_environment)")>>))

\* the evaluation library running the compiled snippet
FrameMeval ==
    Frame(Path(<<"usr", "lib", "site-packages", "meval", "__init__.py">>),
          "70", "meval",
          CatAll(<<Lit("r"), Rep(" ", 1), Lit("="), Rep(" ", 1), Lit("await"),
                   Rep(" ", 1), Lit("locs["), Rep("\"", 1), Lit("tmp"),
                   Rep("\"", 1), Lit("](**kwargs)")>>))

\* the expression-parsing layer rejecting the script (a SyntaxError)
FrameAstParse ==
    Frame(Path(<<"usr", "lib", "python3", "ast.py">>), "50", "parse",
          CatAll(<<Lit("return"), Rep(" ", 1), Lit("compile(source,"),
                   Rep(" ", 1), Lit("filename,"), Rep(" ", 1), Lit("mode,"),
                   Rep(" ", 1), Lit("flags,")>>))

\* the script itself, compiled under the name "<string>": no source line
FrameSnippet == Frame(StringFile, "1", "tmp", <<>>)

\* a function the script defined and called
FrameUserFn == Frame(StringFile, "2", "f", <<>>)

\* a module under the working directory, called by the script or the plumbing
FrameHelper ==
    Frame(Path(<<"app", "helpers", "contrast.py">>), "7", "adjust",
          CatAll(<<Lit("return"), Rep(" ", 1), Lit("level"), Rep(" ", 1),
                   Lit("/"), Rep(" ", 1), Lit("scale")>>))

\* a module outside the working directory whose path holds its name
FrameVendored ==
    Frame(Path(<<"srv", "app", "vendored.py">>), "12", "call",
          Lit("fn()"))

FrameSamples ==
    {FrameExecuteCode, FrameMeval, FrameAstParse, FrameSnippet, FrameUserFn,
     FrameHelper, FrameVendored}

(***************************************************************************)
(* create_traceback_message and format_exception_with_traceback.           *)
(***************************************************************************)
Last(seq) == seq[Len(seq)]

\* base_directory in frame.filename (a substring test, by components)
ContainsBaseDirectory(filename) ==
    /\ filename.abs
    /\ \E i \in 1..Len(filename.parts) :
          /\ i + Len(BaseDirectory) - 1 <= Len(filename.parts)
          /\ SubSeq(filename.parts, i, i + Len(BaseDirectory) - 1)
                = BaseDirectory

RECURSIVE CommonPrefixLen(_, _)
CommonPrefixLen(a, b) ==
    IF a # <<>> /\ b # <<>> /\ a[1] = b[1]
    THEN 1 + CommonPrefixLen(Tail(a), Tail(b))
    ELSE 0

\* os.path.relpath(filename, base_directory)
RelPath(filename) ==
    LET c    == CommonPrefixLen(filename.parts, BaseDirectory)
        ups  == [i \in 1..(Len(BaseDirectory) - c) |-> ".."]
        rest == SubSeq(filename.parts, c + 1, Len(filename.parts))
    IN  [abs |-> FALSE,
         parts |-> IF ups \o rest = <<>> THEN <<".">> ELSE ups \o rest]

\* main.py:134-136
Relativize(frame) ==
    IF ContainsBaseDirectory(frame.filename)
    THEN [frame EXCEPT !.filename = RelPath(frame.filename)]
    ELSE frame

RECURSIVE JoinPath(_)
JoinPath(parts) ==
    IF Len(parts) = 1 THEN parts[1]
    ELSE parts[1] \o "/" \o JoinPath(Tail(parts))

FilenameText(filename) ==
    IF filename = StringFile
    THEN CatAll(<<Rep("<", 1), Lit("string"), Rep(">", 1)>>)
    ELSE Lit((IF filename.abs THEN "/" ELSE "") \o JoinPath(filename.parts))

\* one entry of traceback.format_list
FormatFrame(frame) ==
    CatAll(<<Rep(" ", 2), Lit("File"), Rep(" ", 1), Rep("\"", 1),
             FilenameText(frame.filename), Rep("\"", 1), Lit(","),
             Rep(" ", 1), Lit("line"), Rep(" ", 1), Lit(frame.lineno),
             Lit(","), Rep(" ", 1), Lit("in"), Rep(" ", 1), Lit(frame.name),
             Rep("\n", 1),
             IF frame.line = <<>> THEN <<>>
             ELSE CatAll(<<Rep(" ", 4), frame.line, Rep("\n", 1)>>)>>)

RECURSIVE FormatList(_)
FormatList(frames) ==
    IF frames = <<>> THEN <<>>
    ELSE Cat(FormatFrame(frames[1]), FormatList(Tail(frames)))

\* main.py:133-136: the frames as rendered
RelativizeAll(frames) == [i \in 1..Len(frames) |-> Relativize(frames[i])]

\* main.py:128-143 with frames given
create_traceback_message(error, frames) ==
    LET traceback_details == FormatList(RelativizeAll(frames))
        error_details ==
            IF error.msg # <<>>
            THEN CatAll(<<Lit(":"), Rep(" ", 1), error.msg>>)
            ELSE <<>>
    IN  CatAll(<<Lit("Traceback (most recent call last):"), Rep("\n", 1),
                 traceback_details, Lit(error.cls), error_details>>)

\* main.py:150: the sentinel of user code
IsSnippetFrame(frame) ==
    \/ frame.filename = StringFile
    \/ Last(frame.filename.parts) \in EndsWithAstPy

\* main.py:149-151: next((i for i, frame in enumerate(tb) if ...), -1),
\* a 0-based index
FirstSnipIdx(tb) ==
    LET hits == {i \in 1..Len(tb) : IsSnippetFrame(tb[i])}
    IN  IF hits = {} THEN -1
        ELSE (CHOOSE i \in hits : \A j \in hits : i <= j) - 1

\* seq[i:] of Python, i a 0-based index that may be negative
SliceFrom(seq, i) ==
    LET from == IF i >= 0 THEN i
                ELSE IF Len(seq) + i > 0 THEN Len(seq) + i ELSE 0
    IN  SubSeq(seq, from + 1, Len(seq))

\* A faulty variant of StrippedTb: the slice starts after the boundary frame.
StrippedTbPastBoundary(tb) == SliceFrom(tb, FirstSnipIdx(tb) + 1)

\* main.py:152
StrippedTb(tb) == SliceFrom(tb, FirstSnipIdx(tb))

\* main.py:146-153
format_exception_with_traceback(excp) ==
    create_traceback_message(excp, StrippedTb(excp.tb))

(***************************************************************************)
(* State.  Every request (task) has the locals of its handle_eval call;    *)
(* the chat and the message ids are the transport's, shared by all tasks.  *)
(***************************************************************************)
VARIABLES
    pc,                \* task -> where its handler is
    text,              \* task -> message.text of the inbound command
    message,           \* task -> id of the inbound message
    command,           \* task -> the script text (main.py:72)
    sent_message,      \* task -> id of the placeholder (main.py:74)
    output_buffer,     \* buffer key -> contents of that io.StringIO
    prefix,            \* task -> prefix returned by execute_code
    execution_result,  \* task -> result returned by execute_code
    output_text,       \* task -> output_text (main.py:95)
    result,            \* task -> the inline message built (main.py:121-124)
    file_name,         \* task -> file.name (main.py:115)
    fault,             \* task -> the exception that ended the handler
    steps,             \* task -> script steps performed so far
    chat,              \* the messages of the chat, by id
    calls,             \* task -> transport calls the handler has issued
    printed,           \* history: task -> what its script wrote via print
    outcome,           \* history: task -> how its script ended
    tb_pc,             \* sanitizer run on its own: "input" or "done"
    tb_excp,           \* its input exception
    tb_stripped,       \* stripped_tb (main.py:152)
    tb_text            \* the string it returned

taskVars ==
    <<pc, text, message, command, sent_message, output_buffer, prefix,
      execution_result, output_text, result, file_name, fault, steps,
      chat, calls, printed, outcome>>

tbVars == <<tb_pc, tb_excp, tb_stripped, tb_text>>

vars == <<taskVars, tbVars>>

(***************************************************************************)
(* Values of the program.                                                  *)
(***************************************************************************)
\* Optional[str]: None, or the textual rendering str(value)
None == [is_none |-> TRUE, str |-> <<>>]

Value(str) == [is_none |-> FALSE, str |-> str]

\* main.py:66-69
UsageText ==
    Lit("To execute Python code, please include the code you wish to run. Use the command /run followed by your code.")

\* main.py:74
PlaceholderText == Lit("<i>Executing your code...</i>")

\* main.py:106
ErrorPrefix == Lit("<b>Error while executing snippet:</b>\n\n")

\* main.py:116
Caption == Lit("Output is too large to be sent as a text message.")

(***************************************************************************)
(* handle_eval, lines 63-74: the argument check and the script text.       *)
(***************************************************************************)
\* context.args as the command handler sets it: message.text.split()[1:]
ContextArgs(txt) == Tail(Split(txt))

\* A faulty variant of NoScriptText: it tests the message text, not the
\* arguments (if not message.text).
NoScriptTextOfMessage(txt) == txt = <<>>

\* main.py:65
NoScriptText(txt) == Len(ContextArgs(txt)) < 1

(***************************************************************************)
(* handle_eval, lines 76-95: the capture buffer and the output text.       *)
(***************************************************************************)
\* A faulty variant of BufferOf: one module-level buffer for every request.
SharedBuffer(t) == 1

\* The io.StringIO that request t allocates at main.py:76 and that its
\* print_output closure and lines 94-95 use.
BufferOf(t) == t

\* print(str, end=end, file=buffer)
PrintTo(buffer, str, end) == CatAll(<<buffer, str, end>>)

\* main.py:93-95
OutputText(buffer, execution_result_) ==
    RStrip(IF execution_result_.is_none THEN buffer
           ELSE PrintTo(buffer, execution_result_.str, Rep("\n", 1)))

(***************************************************************************)
(* execute_code, lines 100-106.                                            *)
(***************************************************************************)
\* main.py:104: except Exception
Caught(error) == error.is_exception

\* A faulty variant of execute_code: the except branch returns no header.
execute_code_without_header(ended) ==
    IF ended.kind = "return"
    THEN [prefix |-> <<>>, result |-> ended.value, propagates |-> FALSE]
    ELSE IF Caught(ended.exception)
    THEN [prefix |-> <<>>,
          result |-> Value(format_exception_with_traceback(ended.exception)),
          propagates |-> FALSE]
    ELSE [prefix |-> <<>>, result |-> None, propagates |-> TRUE]

\* What execute_code does with the way meval ended: returns the pair
\* (prefix, result), or lets the exception propagate.
execute_code(ended) ==
    IF ended.kind = "return"
    THEN [prefix |-> <<>>, result |-> ended.value, propagates |-> FALSE]
    ELSE IF Caught(ended.exception)
    THEN [prefix |-> ErrorPrefix,
          result |-> Value(format_exception_with_traceback(ended.exception)),
          propagates |-> FALSE]
    ELSE [prefix |-> <<>>, result |-> None, propagates |-> TRUE]

(***************************************************************************)
(* handle_response, lines 109-125.                                         *)
(***************************************************************************)
\* A faulty variant of TooLarge: the limit itself counts as too large.
TooLargeAtLimit(output) == TLen(output) >= MAX_MESSAGE_LENGTH

\* main.py:113
TooLarge(output) == TLen(output) > MAX_MESSAGE_LENGTH

\* str.upper() on hexadecimal digits
UpperOf ==
    ("a" :> "A") @@ ("b" :> "B") @@ ("c" :> "C") @@ ("d" :> "D")
    @@ ("e" :> "E") @@ ("f" :> "F")

Upper(chars) ==
    [i \in 1..Len(chars) |->
        IF chars[i] \in DOMAIN UpperOf THEN UpperOf[chars[i]] ELSE chars[i]]

\* chars.split(sep)[0]
RECURSIVE FirstField(_, _)
FirstField(chars, sep) ==
    IF chars = <<>> \/ chars[1] = sep THEN <<>>
    ELSE <<chars[1]>> \o FirstField(Tail(chars), sep)

\* str(uuid.uuid4()): two of the values it may return
Uuid4Samples ==
    { <<"3","f","0","a","9","c","1","e","-","7","b","2","d","-","4","c",
        "6","a","-","9","e","0","f","-","1","a","2","b","3","c","4","d",
        "5","e","6","f">>,
      <<"1","0","2","9","3","8","4","7","-","5","6","1","0","-","4","2",
        "9","3","-","8","4","7","5","-","6","1","0","2","9","3","8","4",
        "7","5","6","1">> }

\* main.py:115
FileName(uuid4) == Upper(FirstField(uuid4, "-")) \o <<".", "T", "X", "T">>

\* main.py:121-124
InlineResult(prefix_, command_args, output) ==
    CatAll(<<prefix_,
             Lit("<b>Input:</b>\n"),
             Lit("<pre><code class='language-python'>"),
             HtmlEscape(command_args),
             Lit("</code></pre>\n"),
             Lit("<b>Output:</b>\n"),
             Lit("<pre><code class='language-python'>"),
             HtmlEscape(output),
             Lit("</code></pre>\n")>>)

(***************************************************************************)
(* The transport.  A message of the chat: who sent it, for which request,  *)
(* what it is, what it replies to, its text (or file contents), its file   *)
(* name, and what was done to it since.                                    *)
(***************************************************************************)
Msg(sender, task, kind, reply_to, body, name, caption) ==
    [name |-> name, kind |-> kind, sender |-> sender, task |-> task,
     reply_to |-> reply_to, body |-> body, caption |-> caption,
     deleted |-> FALSE, edited_by |-> <<>>, deleted_by |-> <<>>]

Call(op, target) == [op |-> op, target |-> target]

NextId == Len(chat) + 1

(***************************************************************************)
(* Inputs: the inbound messages, and what a script may do.  A script is    *)
(* arbitrary code, so its behaviour is a free choice among these.          *)
(***************************************************************************)
Space == Rep(" ", 1)

Newline == Rep("\n", 1)

Quote == Rep("\"", 1)

\* "/run"
TextBare == Lit("/run")

\* "/run  \n"
TextBlank == CatAll(<<Lit("/run"), Rep(" ", 2), Newline>>)

\* "/run 1/0"
TextExpr == CatAll(<<Lit("/run"), Space, Lit("1/0")>>)

\* "/run\nprint(\"hi\")"
TextPrint ==
    CatAll(<<Lit("/run"), Newline, Lit("print("), Quote, Lit("hi"), Quote,
             Lit(")")>>)

\* "/run  x & y  "
TextAmp ==
    CatAll(<<Lit("/run"), Rep(" ", 2), Lit("x"), Space, Rep("&", 1), Space,
             Lit("y"), Rep(" ", 2)>>)

\* "/run " and a script of 4000 characters
TextLong == CatAll(<<Lit("/run"), Space, Rep("#", 4000)>>)

MessageTexts == {TextBare, TextBlank, TextExpr, TextPrint, TextAmp, TextLong}

PrintArgs == {Lit("hi"), Rep("<", 1), Rep("x", MAX_MESSAGE_LENGTH)}

PrintEnds == {Newline, <<>>}

ReturnValues == {None, Value(Lit("7")), Value(Rep("y", 5000))}

\* 1/0 inside a function the script defined
ExcZeroDivision ==
    Exc("ZeroDivisionError", TRUE, Lit("division by zero"),
        <<FrameExecuteCode, FrameMeval, FrameSnippet, FrameUserFn>>)

\* the script does not parse
ExcSyntax ==
    Exc("SyntaxError", TRUE,
        CatAll(<<Lit("invalid syntax"), Space, Lit("("), Rep("<", 1),
                 Lit("unknown"), Rep(">", 1), Lit(","), Space, Lit("line"),
                 Space, Lit("1)")>>),
        <<FrameExecuteCode, FrameMeval, FrameAstParse>>)

\* the script parses and is rejected when compiled: no frame of its own
ExcCompile ==
    Exc("SyntaxError", TRUE,
        CatAll(<<Lit("no binding for nonlocal"), Space, Rep("'", 1), Lit("x"),
                 Rep("'", 1), Space, Lit("found")>>),
        <<FrameExecuteCode, FrameMeval>>)

\* raise KeyError() in the script: str(error) is empty
ExcKey ==
    Exc("KeyError", TRUE, <<>>,
        <<FrameExecuteCode, FrameMeval, FrameSnippet>>)

\* exit() in the script: SystemExit derives from BaseException only
ExcSystemExit ==
    Exc("SystemExit", FALSE, <<>>,
        <<FrameExecuteCode, FrameMeval, FrameSnippet>>)

\* the script's task is cancelled: asyncio.CancelledError, a BaseException
ExcCancelled ==
    Exc("CancelledError", FALSE, <<>>,
        <<FrameExecuteCode, FrameMeval, FrameSnippet>>)

Raised ==
    {ExcZeroDivision, ExcSyntax, ExcCompile, ExcKey, ExcSystemExit,
     ExcCancelled}

\* The inputs of the single request of Spec.
SoloInputs ==
    [texts |-> MessageTexts, args |-> PrintArgs, ends |-> PrintEnds,
     values |-> ReturnValues, raised |-> Raised]

\* The inputs of request t among concurrent ones: fewer, and what its
\* script writes and returns names the request.
Tag == (1 :> "one") @@ (2 :> "two")

ConcInputs(t) ==
    [texts  |-> {TextBare, TextExpr},
     args   |-> {Lit(Tag[t])},
     ends   |-> {Newline},
     values |-> {None, Value(Rep(Tag[t], 1365)), Value(Rep(Tag[t], 2000))},
     raised |-> {[ExcZeroDivision EXCEPT !.msg = Lit(Tag[t])], ExcSystemExit}]

(***************************************************************************)
(* Initial state: no request received yet.                                 *)
(***************************************************************************)
InitTasks ==
    /\ pc = [t \in Tasks |-> "idle"]
    /\ text = [t \in Tasks |-> <<>>]
    /\ message = [t \in Tasks |-> 0]
    /\ command = [t \in Tasks |-> <<>>]
    /\ sent_message = [t \in Tasks |-> 0]
    /\ output_buffer = [t \in Tasks |-> <<>>]
    /\ prefix = [t \in Tasks |-> <<>>]
    /\ execution_result = [t \in Tasks |-> None]
    /\ output_text = [t \in Tasks |-> <<>>]
    /\ result = [t \in Tasks |-> <<>>]
    /\ file_name = [t \in Tasks |-> <<>>]
    /\ fault = [t \in Tasks |-> "none"]
    /\ steps = [t \in Tasks |-> 0]
    /\ chat = <<>>
    /\ calls = [t \in Tasks |-> <<>>]
    /\ printed = [t \in Tasks |-> <<>>]
    /\ outcome = [t \in Tasks |-> [kind |-> "running"]]

InitTb ==
    /\ tb_pc = "idle"
    /\ tb_excp = Exc("", TRUE, <<>>, <<>>)
    /\ tb_stripped = <<>>
    /\ tb_text = <<>>

(***************************************************************************)
(* Actions of a request.  Each runs the handler from one suspension point  *)
(* (an await on the transport or inside the script) to the next.           *)
(***************************************************************************)
\* The user sends a /run command; the dispatcher starts handle_eval.
Receive(t, in) ==
    /\ pc[t] = "idle"
    /\ \E txt \in in.texts :
          /\ text' = [text EXCEPT ![t] = txt]
          /\ chat' = Append(chat, Msg("user", t, "command", 0, txt, <<>>, <<>>))
    /\ message' = [message EXCEPT ![t] = NextId]
    /\ pc' = [pc EXCEPT ![t] = "recv"]
    /\ UNCHANGED <<command, sent_message, output_buffer, prefix,
                   execution_result, output_text, result, file_name, fault,
                   steps, calls, printed, outcome, tbVars>>

\* main.py:65-70: no script text
HandleEvalUsage(t) ==
    /\ pc[t] = "recv"
    /\ NoScriptText(text[t])
    /\ chat' = Append(chat, Msg("bot", t, "usage", message[t], UsageText,
                            <<>>, <<>>))
    /\ calls' = [calls EXCEPT ![t] = Append(@, Call("reply_text", message[t]))]
    /\ pc' = [pc EXCEPT ![t] = "done"]
    /\ UNCHANGED <<text, message, command, sent_message, output_buffer, prefix,
                   execution_result, output_text, result, file_name, fault,
                   steps, printed, outcome, tbVars>>

\* main.py:72-89: the script text, the placeholder, a fresh buffer and the
\* environment; execute_code and meval are entered.
HandleEvalStart(t) ==
    /\ pc[t] = "recv"
    /\ ~NoScriptText(text[t])
    /\ LET parts == SplitOnce(text[t])
       IN  IF Len(parts) < 2
           THEN \* message.text.split(None, 1)[1] raises IndexError
                /\ pc' = [pc EXCEPT ![t] = "crashed"]
                /\ fault' = [fault EXCEPT ![t] = "IndexError"]
                /\ UNCHANGED <<command, sent_message, output_buffer, chat,
                               calls>>
           ELSE /\ command' = [command EXCEPT ![t] = parts[2]]
                /\ chat' = Append(chat, Msg("bot", t, "placeholder",
                                            message[t], PlaceholderText,
                                            <<>>, <<>>))
                /\ calls' = [calls EXCEPT
                                ![t] = Append(@, Call("reply_text", message[t]))]
                /\ sent_message' = [sent_message EXCEPT ![t] = NextId]
                /\ output_buffer' = [output_buffer EXCEPT ![BufferOf(t)] = <<>>]
                /\ pc' = [pc EXCEPT ![t] = "exec"]
                /\ UNCHANGED fault
    /\ UNCHANGED <<text, message, prefix, execution_result, output_text,
                   result, file_name, steps, printed, outcome, tbVars>>

\* The script calls print(arg, end=end): print_output, main.py:77-80.
ScriptPrint(t, in) ==
    /\ pc[t] = "exec"
    /\ steps[t] < MaxSteps
    /\ \E arg \in in.args, end \in in.ends :
          /\ output_buffer' =
                [output_buffer EXCEPT
                    ![BufferOf(t)] = PrintTo(@, arg, end)]
          /\ printed' = [printed EXCEPT ![t] = PrintTo(@, arg, end)]
    /\ steps' = [steps EXCEPT ![t] = @ + 1]
    /\ UNCHANGED <<pc, text, message, command, sent_message, prefix,
                   execution_result, output_text, result, file_name, fault,
                   chat, calls, outcome, tbVars>>

\* The script awaits something: the task is suspended and resumed.
ScriptAwait(t) ==
    /\ pc[t] = "exec"
    /\ steps[t] < MaxSteps
    /\ steps' = [steps EXCEPT ![t] = @ + 1]
    /\ UNCHANGED <<pc, text, message, command, sent_message, output_buffer,
                   prefix, execution_result, output_text, result, file_name,
                   fault, chat, calls, printed, outcome, tbVars>>

\* meval ends as `ended` says: execute_code (main.py:100-106), then
\* main.py:93-95 when it returned.
ScriptEnds(t, ended) ==
    LET ret == execute_code(ended)
    IN  /\ pc[t] = "exec"
        /\ outcome' = [outcome EXCEPT ![t] = ended]
        /\ IF ret.propagates
           THEN /\ pc' = [pc EXCEPT ![t] = "crashed"]
                /\ fault' = [fault EXCEPT ![t] = ended.exception.cls]
                /\ UNCHANGED <<prefix, execution_result, output_buffer,
                               output_text>>
           ELSE /\ prefix' = [prefix EXCEPT ![t] = ret.prefix]
                /\ execution_result' =
                      [execution_result EXCEPT ![t] = ret.result]
                /\ output_buffer' =
                      [output_buffer EXCEPT
                          ![BufferOf(t)] =
                              IF ret.result.is_none THEN @
                              ELSE PrintTo(@, ret.result.str, Newline)]
                /\ output_text' =
                      [output_text EXCEPT
                          ![t] = OutputText(output_buffer[BufferOf(t)],
                                            ret.result)]
                /\ pc' = [pc EXCEPT ![t] = "respond"]
                /\ UNCHANGED fault
        /\ UNCHANGED <<text, message, command, sent_message, result,
                       file_name, steps, chat, calls, printed, tbVars>>

\* The script runs to its end and meval returns its value.
ScriptReturns(t, in) ==
    \E v \in in.values : ScriptEnds(t, [kind |-> "return", value |-> v])

\* The script (or its compilation) raises.
ScriptRaises(t, in) ==
    \E e \in in.raised : ScriptEnds(t, [kind |-> "raise", exception |-> e])

\* The Message that handle_response receives as sent_message (main.py:97).
SentMessageOf(t) == sent_message[t]

\* str.encode(str(output)): UTF-8 of ASCII text, one byte per character
Encode(output) == output

\* main.py:113-117: the output is too large; the file is named and the
\* placeholder deleted.
HandleResponseDelete(t) ==
    /\ pc[t] = "respond"
    /\ TooLarge(output_text[t])
    /\ \E uuid4 \in Uuid4Samples :
          file_name' = [file_name EXCEPT ![t] = FileName(uuid4)]
    /\ chat' = [chat EXCEPT ![SentMessageOf(t)].deleted = TRUE,
                            ![SentMessageOf(t)].deleted_by = Append(@, t)]
    /\ calls' = [calls EXCEPT ![t] = Append(@, Call("delete", SentMessageOf(t)))]
    /\ pc' = [pc EXCEPT ![t] = "document"]
    /\ UNCHANGED <<text, message, command, sent_message, output_buffer, prefix,
                   execution_result, output_text, result, fault, steps,
                   printed, outcome, tbVars>>

\* main.py:118-119: the file is sent as a reply to the original message.
HandleResponseDocument(t) ==
    /\ pc[t] = "document"
    /\ chat' = Append(chat, Msg("bot", t, "document", message[t],
                                Encode(output_text[t]), file_name[t],
                                Caption))
    /\ calls' = [calls EXCEPT
                    ![t] = Append(@, Call("reply_document", message[t]))]
    /\ pc' = [pc EXCEPT ![t] = "done"]
    /\ UNCHANGED <<text, message, command, sent_message, output_buffer, prefix,
                   execution_result, output_text, result, file_name, fault,
                   steps, printed, outcome, tbVars>>

\* main.py:121-125: the inline message is built and edited into the
\* placeholder; the transport accepts it.
HandleResponseInline(t) ==
    LET built == InlineResult(prefix[t], command[t], output_text[t])
    IN  /\ pc[t] = "respond"
        /\ ~TooLarge(output_text[t])
        /\ result' = [result EXCEPT ![t] = built]
        /\ chat' = [chat EXCEPT ![SentMessageOf(t)].body = built,
                                ![SentMessageOf(t)].edited_by = Append(@, t)]
        /\ calls' = [calls EXCEPT
                        ![t] = Append(@, Call("edit_text", SentMessageOf(t)))]
        /\ pc' = [pc EXCEPT ![t] = "done"]
        /\ UNCHANGED <<text, message, command, sent_message, output_buffer,
                       prefix, execution_result, output_text, file_name,
                       fault, steps, printed, outcome, tbVars>>

\* main.py:121-125 when the transport refuses the edit, which it may do
\* for a text above its limit: edit_text raises and nothing catches it.
HandleResponseInlineRejected(t) ==
    LET built == InlineResult(prefix[t], command[t], output_text[t])
    IN  /\ pc[t] = "respond"
        /\ ~TooLarge(output_text[t])
        /\ TLen(built) > MAX_MESSAGE_LENGTH
        /\ result' = [result EXCEPT ![t] = built]
        /\ calls' = [calls EXCEPT
                        ![t] = Append(@, Call("edit_text", SentMessageOf(t)))]
        /\ pc' = [pc EXCEPT ![t] = "crashed"]
        /\ fault' = [fault EXCEPT ![t] = "BadRequest"]
        /\ UNCHANGED <<text, message, command, sent_message, output_buffer,
                       prefix, execution_result, output_text, file_name,
                       steps, chat, printed, outcome, tbVars>>

(***************************************************************************)
(* Spec: one /run request, with every input.                               *)
(***************************************************************************)
Init == InitTasks /\ InitTb

Next ==
    \E t \in {1} :
        \/ Receive(t, SoloInputs)
        \/ HandleEvalUsage(t)
        \/ HandleEvalStart(t)
        \/ ScriptPrint(t, SoloInputs)
        \/ ScriptAwait(t)
        \/ ScriptReturns(t, SoloInputs)
        \/ ScriptRaises(t, SoloInputs)
        \/ HandleResponseDelete(t)
        \/ HandleResponseDocument(t)
        \/ HandleResponseInline(t)
        \/ HandleResponseInlineRejected(t)

Spec == Init /\ [][Next]_vars

(***************************************************************************)
(* SpecConc: the requests of Tasks, handled concurrently; the tasks        *)
(* interleave at their suspension points.                                  *)
(***************************************************************************)
NextConc ==
    \E t \in Tasks :
        \/ Receive(t, ConcInputs(t))
        \/ HandleEvalUsage(t)
        \/ HandleEvalStart(t)
        \/ ScriptPrint(t, ConcInputs(t))
        \/ ScriptAwait(t)
        \/ ScriptReturns(t, ConcInputs(t))
        \/ ScriptRaises(t, ConcInputs(t))
        \/ HandleResponseDelete(t)
        \/ HandleResponseDocument(t)
        \/ HandleResponseInline(t)
        \/ HandleResponseInlineRejected(t)

SpecConc == Init /\ [][NextConc]_vars

(***************************************************************************)
(* SpecTb: format_exception_with_traceback on its own, on every traceback  *)
(* of up to MaxFrames frames.                                              *)
(***************************************************************************)
Tracebacks == UNION {[1..k -> FrameSamples] : k \in 0..MaxFrames}

InitSanitizer ==
    /\ InitTasks
    /\ tb_pc = "input"
    /\ tb_excp \in
          {Exc(e.cls, TRUE, e.msg, tb) :
              e \in {ExcZeroDivision, ExcKey}, tb \in Tracebacks}
    /\ tb_stripped = <<>>
    /\ tb_text = <<>>

\* main.py:146-153
Sanitize ==
    /\ tb_pc = "input"
    /\ tb_stripped' = RelativizeAll(StrippedTb(tb_excp.tb))
    /\ tb_text' = format_exception_with_traceback(tb_excp)
    /\ tb_pc' = "done"
    /\ UNCHANGED <<tb_excp, taskVars>>

NextTb == Sanitize

SpecTb == InitSanitizer /\ [][NextTb]_vars

(***************************************************************************)
(* Notions the properties are stated in.                                   *)
(***************************************************************************)
IsPrefix(a, b) == Len(a) <= Len(b) /\ a = SubSeq(b, 1, Len(a))

\* The text after the command keyword holds no script: nothing but
\* whitespace follows the first word.
NoTextAfterKeyword(txt) == SkipSpace(SkipWord(SkipSpace(txt))) = <<>>

\* execute_code has been invoked for request t.
Evaluated(t) == pc[t] \in {"exec", "respond", "document"} \/ outcome[t].kind # "running"

\* The handler of request t has ended, by returning or by an exception.
Ended(t) == pc[t] \in {"done", "crashed"}

\* handle_response has been entered for request t.
Responding(t) ==
    \/ pc[t] \in {"respond", "document"}
    \/ pc[t] = "done" /\ sent_message[t] # 0
    \/ fault[t] = "BadRequest"

\* The transport calls handle_response has issued for request t: those
\* after the placeholder was sent.
ResponseCalls(t) == Tail(calls[t])

\* The ids of the messages the user has as final replies to request t: a
\* usage message, the placeholder once the result was edited into it, or a
\* document.
FinalReplies(t) ==
    {id \in 1..Len(chat) :
        /\ chat[id].sender = "bot"
        /\ chat[id].task = t
        /\ ~chat[id].deleted
        /\ \/ chat[id].kind \in {"usage", "document"}
           \/ chat[id].kind = "placeholder" /\ chat[id].edited_by # <<>>}

(***************************************************************************)
(* C1.                                                                     *)
(***************************************************************************)
\* C1: whatever exception the script raises, of any class, execute_code
\* catches it and returns the Failed outcome (the error header and the
\* sanitized traceback); none ends the handler.
C1_EveryExceptionContained ==
    \A t \in Tasks :
        outcome[t].kind = "raise" =>
            /\ fault[t] = "none"
            /\ prefix[t] = ErrorPrefix
            /\ execution_result[t] =
                  Value(format_exception_with_traceback(outcome[t].exception))

(***************************************************************************)
(* C2.                                                                     *)
(***************************************************************************)
\* C2: every /run request whose handler has ended has exactly one final
\* reply: the usage message, the edited inline message or the document.
C2_EndsWithOneFinalReply ==
    \A t \in Tasks : Ended(t) => Cardinality(FinalReplies(t)) = 1

(***************************************************************************)
(* C3.                                                                     *)
(***************************************************************************)
\* C3: a /run with no script text gets the usage reply and nothing else
\* (no evaluation, no placeholder, no edit, delete or document); and
\* whenever execute_code is invoked the script text is non-empty, its
\* extraction never having failed.
C3_UsageOnlyWithoutScript ==
    \A t \in Tasks :
        /\ (pc[t] # "idle" /\ NoTextAfterKeyword(text[t])) =>
              /\ ~Evaluated(t)
              /\ pc[t] \in {"recv", "done"}
              /\ sent_message[t] = 0
              /\ calls[t] = IF pc[t] = "done"
                            THEN <<Call("reply_text", message[t])>>
                            ELSE <<>>
              /\ \A id \in 1..Len(chat) :
                    (chat[id].sender = "bot" /\ chat[id].task = t) =>
                        /\ chat[id].kind = "usage"
                        /\ chat[id].body = UsageText
                        /\ chat[id].reply_to = message[t]
        /\ Evaluated(t) => TLen(command[t]) > 0
        /\ fault[t] # "IndexError"

\* C3 witness: a /run followed by whitespace only has been answered with
\* the usage message.
C3_Witness ==
    /\ pc[1] = "done"
    /\ text[1] = TextBlank
    /\ Cardinality(FinalReplies(1)) = 1
    /\ \A id \in FinalReplies(1) : chat[id].kind = "usage"

(***************************************************************************)
(* C4.                                                                     *)
(***************************************************************************)
\* C4: the file reply is chosen whenever the rendered inline message would
\* exceed 4096 characters: no inline message handed to edit_text is longer.
C4_InlineWithinLimit ==
    \A t \in Tasks :
        (\E i \in 1..Len(calls[t]) : calls[t][i].op = "edit_text") =>
            TLen(result[t]) <= MAX_MESSAGE_LENGTH

(***************************************************************************)
(* C5.                                                                     *)
(***************************************************************************)
UpperHexDigits ==
    {"0", "1", "2", "3", "4", "5", "6", "7", "8", "9",
     "A", "B", "C", "D", "E", "F"}

\* 8 uppercase hexadecimal characters, then ".TXT"
WellNamed(name) ==
    /\ Len(name) = 12
    /\ \A i \in 1..8 : name[i] \in UpperHexDigits
    /\ SubSeq(name, 9, 12) = <<".", "T", "X", "T">>

DocumentsOf(t) ==
    {id \in 1..Len(chat) : chat[id].task = t /\ chat[id].kind = "document"}

\* C5: in handle_response, for an output text longer than 4096 characters
\* the calls are: delete the placeholder, then send one document (the
\* whole output text, named 8 uppercase hex characters plus ".TXT", in
\* reply to the original message), and never an edit; for an output text
\* of 4096 characters or fewer: one edit of the placeholder, no delete, no
\* document.
C5_ResponseSteps ==
    \A t \in Tasks :
        Responding(t) =>
            IF TLen(output_text[t]) > 4096
            THEN /\ IsPrefix(ResponseCalls(t),
                             <<Call("delete", sent_message[t]),
                               Call("reply_document", message[t])>>)
                 /\ Len(ResponseCalls(t)) =
                       (CASE pc[t] = "respond" -> 0
                          [] pc[t] = "document" -> 1
                          [] OTHER -> 2)
                 /\ pc[t] \in {"respond", "document", "done"}
                 /\ chat[sent_message[t]].edited_by = <<>>
                 /\ chat[sent_message[t]].body = PlaceholderText
                 /\ chat[sent_message[t]].deleted = (pc[t] # "respond")
                 /\ Cardinality(DocumentsOf(t)) =
                       (IF pc[t] = "done" THEN 1 ELSE 0)
                 /\ \A id \in DocumentsOf(t) :
                       /\ chat[id].body = output_text[t]
                       /\ WellNamed(chat[id].name)
                       /\ chat[id].reply_to = message[t]
                       /\ id > sent_message[t]
            ELSE /\ ResponseCalls(t) =
                       (IF pc[t] = "respond" THEN <<>>
                        ELSE <<Call("edit_text", sent_message[t])>>)
                 /\ pc[t] \in {"respond", "done", "crashed"}
                 /\ ~chat[sent_message[t]].deleted
                 /\ Len(chat[sent_message[t]].edited_by) <= 1
                 /\ DocumentsOf(t) = {}

\* C5 witness: an output text above the limit has been answered with the
\* document, the placeholder deleted.
C5_Witness ==
    /\ pc[1] = "done"
    /\ TLen(output_text[1]) > 4096
    /\ chat[sent_message[1]].deleted
    /\ DocumentsOf(1) # {}

(***************************************************************************)
(* C6.                                                                     *)
(***************************************************************************)
\* The inline message with the given header and texts in its blocks.
InlineMessage(header, input, output) ==
    CatAll(<<header,
             Lit("<b>Input:</b>\n"),
             Lit("<pre><code class='language-python'>"), HtmlEscape(input),
             Lit("</code></pre>\n"),
             Lit("<b>Output:</b>\n"),
             Lit("<pre><code class='language-python'>"), HtmlEscape(output),
             Lit("</code></pre>\n")>>)

\* The text of what the script's run yielded besides its prints: the
\* rendering of the value it returned, or the sanitized traceback.
Yielded(t) ==
    IF outcome[t].kind = "raise"
    THEN format_exception_with_traceback(outcome[t].exception)
    ELSE outcome[t].value.str

InlineBuilt(t) == result[t] # <<>>

\* C6 as stated: after an exception the inline reply has the error header
\* and its Output block is the escaped sanitized traceback alone; after a
\* completed run it has no header and its Output block is the escaped
\* captured text.
C6_TracebackAlone ==
    \A t \in Tasks :
        InlineBuilt(t) =>
            IF outcome[t].kind = "raise"
            THEN result[t] = InlineMessage(ErrorPrefix, command[t], Yielded(t))
            ELSE result[t] = InlineMessage(<<>>, command[t], output_text[t])

\* C6 as amended: after an exception the inline reply has the error header
\* and its Output block is the escaped text the script printed before
\* failing followed by the sanitized traceback (trailing whitespace
\* removed); after a completed run it has no header and its Output block
\* is the escaped output text.
C6_PrintsThenTraceback ==
    \A t \in Tasks :
        InlineBuilt(t) =>
            IF outcome[t].kind = "raise"
            THEN result[t] =
                    InlineMessage(ErrorPrefix, command[t],
                                  RStrip(CatAll(<<printed[t], Yielded(t),
                                                  Newline>>)))
            ELSE result[t] = InlineMessage(<<>>, command[t], output_text[t])

\* C6 witness: a script that printed and then raised has its inline reply.
C6_Witness ==
    /\ pc[1] = "done"
    /\ InlineBuilt(1)
    /\ outcome[1].kind = "raise"
    /\ printed[1] # <<>>

(***************************************************************************)
(* C7.                                                                     *)
(***************************************************************************)
\* The captured text followed by the value's rendering on a line of its
\* own.
OnOwnLine(captured, rendering) ==
    IF captured = <<>> \/ Last(captured).s = "\n"
    THEN Cat(captured, rendering)
    ELSE CatAll(<<captured, Newline, rendering>>)

\* C7: after a completed run whose value is not null the output text is
\* the captured text, unchanged, then the value's rendering at the
\* beginning of a line; with a null value it is the captured text only
\* (up to the trailing whitespace the handler removes).
C7_ValueOnOwnLine ==
    \A t \in Tasks :
        (outcome[t].kind = "return" /\ pc[t] # "exec") =>
            output_text[t] =
                RStrip(IF outcome[t].value.is_none THEN printed[t]
                       ELSE OnOwnLine(printed[t], outcome[t].value.str))

(***************************************************************************)
(* C8 and C9, under SpecTb.                                                *)
(***************************************************************************)
\* The positions of the frames that match the user-code sentinel: filename
\* "<string>", or a filename ending in "ast.py".
SentinelPositions(tb) ==
    {i \in 1..Len(tb) :
        \/ tb[i].filename = StringFile
        \/ Last(tb[i].filename.parts) \in EndsWithAstPy}

\* The frames of tb from position k on, as create_traceback_message
\* renders them (paths under the working directory made relative).
KeptFrom(tb, k) == [i \in 1..(Len(tb) - k + 1) |-> Relativize(tb[k + i - 1])]

\* C8: for a traceback with no frame matching the sentinel nothing is
\* discarded: the sanitized traceback holds every captured frame, in the
\* original order.
C8_NoSentinelKeepsAll ==
    (tb_pc = "done" /\ SentinelPositions(tb_excp.tb) = {}) =>
        /\ tb_stripped = KeptFrom(tb_excp.tb, 1)
        /\ tb_text = create_traceback_message(tb_excp, tb_excp.tb)

\* C9: for a traceback with a frame matching the sentinel, the sanitized
\* traceback is exactly the suffix that starts at the first matching frame:
\* the frames before it are gone, it and the later ones are kept in order.
C9_SuffixFromFirstSentinel ==
    (tb_pc = "done" /\ SentinelPositions(tb_excp.tb) # {}) =>
        LET first == CHOOSE i \in SentinelPositions(tb_excp.tb) :
                        \A j \in SentinelPositions(tb_excp.tb) : i <= j
        IN  /\ tb_stripped = KeptFrom(tb_excp.tb, first)
            /\ Len(tb_stripped) = Len(tb_excp.tb) - first + 1
            /\ tb_text =
                  create_traceback_message(
                      tb_excp,
                      SubSeq(tb_excp.tb, first, Len(tb_excp.tb)))

\* C9 witness: an exception raised in a nested call of the script, below
\* a plumbing frame, has been sanitized.
C9_Witness ==
    /\ tb_pc = "done"
    /\ tb_excp.tb = <<FrameMeval, FrameSnippet, FrameUserFn>>
    /\ Len(tb_stripped) = 2

(***************************************************************************)
(* C10, under SpecConc.                                                    *)
(***************************************************************************)
\* The output text of request t has been computed.
HasOutput(t) == outcome[t].kind # "running" /\ fault[t] \in {"none", "BadRequest"}

\* C10: under every interleaving of the requests, the capture buffer of a
\* request holds what its own script printed, its output text is made of
\* that and of its own value or traceback and holds nothing another request
\* wrote, and a request edits or deletes only its own placeholder.
C10_RequestsIsolated ==
    \A t \in Tasks :
        /\ pc[t] = "exec" => output_buffer[t] = printed[t]
        /\ HasOutput(t) =>
              /\ output_text[t] =
                    RStrip(IF outcome[t].kind = "return"
                              /\ outcome[t].value.is_none
                           THEN printed[t]
                           ELSE CatAll(<<printed[t], Yielded(t), Newline>>))
              /\ \A i \in 1..Len(output_text[t]) :
                    \A u \in Tasks \ {t} : output_text[t][i].s # Tag[u]
        /\ \A i \in 1..Len(calls[t]) :
              calls[t][i].op \in {"edit_text", "delete"} =>
                  /\ chat[calls[t][i].target].kind = "placeholder"
                  /\ chat[calls[t][i].target].task = t
        /\ \A id \in 1..Len(chat) :
              \A i \in 1..Len(chat[id].edited_by \o chat[id].deleted_by) :
                  (chat[id].edited_by \o chat[id].deleted_by)[i] = chat[id].task

\* C10 witness: two requests that ran interleaved (the second arrived
\* before the first had its placeholder, and both scripts printed) have
\* both been answered.
C10_Witness ==
    /\ pc[1] = "done" /\ pc[2] = "done"
    /\ printed[1] # <<>> /\ printed[2] # <<>>
    /\ message[1] < message[2] /\ message[2] < sent_message[1]
    /\ sent_message[1] < sent_message[2]
    /\ chat[sent_message[1]].edited_by = <<1>>
    /\ chat[sent_message[2]].deleted_by = <<2>>

====
